---- MODULE Spec2Model ----
(***************************************************************************)
(* FinEquityAmericanOption: the option contract (constructor and value())  *)
(* of financepy/products/equity/FinEquityAmericanOption.py, with the CRR   *)
(* lattice engine it calls.                                                *)
(*                                                                         *)
(* Numbers.  Reals are modelled on an integer grid.  Year fractions and    *)
(* volatilities are counted in ticks; the tick is the smallest positive    *)
(* value of the grid, so the code's floor 1e-10 (the smallest positive     *)
(* value the code lets through) is one tick, and one day is one tick of    *)
(* year fraction (YearTicks = gDaysInYear).  Prices, strikes and option    *)
(* values are whole money units.  A discount factor df is drawn from the   *)
(* grid exp(-k) and carried as k = -ln(df) >= 0.                           *)
(***************************************************************************)
EXTENDS Integers, Sequences, FiniteSets, TLC

\* ---- bounds of the model ------------------------------------------------
MaxLen == 2            \* longest spot vector
MaxT == 2              \* largest time to expiry, in ticks (days)
MaxStepsPerDay == 2    \* numStepsPerYear ranges over gDaysInYear * 1..MaxStepsPerDay

\* ---- program constants --------------------------------------------------
gDaysInYear == 365     \* FinGlobalVariables.gDaysInYear
YearTicks == gDaysInYear
TexpFloor == 1         \* 1e-10 of np.maximum(texp, 1e-10), in ticks
VolFloor == 1          \* 1e-10 of np.maximum(volatility, 1e-10), in ticks
DefaultNumOptions == 1 \* numOptions: float = 1.0

None == "None"

Max(a, b) == IF a >= b THEN a ELSE b
Min(a, b) == IF a <= b THEN a ELSE b

\* ---- FinOptionTypes -----------------------------------------------------
\* Members of the enumeration a caller can pass (well-typed arguments only:
\* checkArgumentTypes rejects the others before the style test).
FinOptionTypes ==
    {"EUROPEAN_CALL", "EUROPEAN_PUT", "AMERICAN_CALL", "AMERICAN_PUT",
     "ASIAN_CALL", "DIGITAL_PUT"}

\* optionType.value, the integer handed to the lattice engine
OptionTypeValue(optionType) ==
    CASE optionType = "EUROPEAN_CALL" -> 1
      [] optionType = "EUROPEAN_PUT"  -> 2
      [] optionType = "AMERICAN_CALL" -> 3
      [] optionType = "AMERICAN_PUT"  -> 4
      [] optionType = "ASIAN_CALL"    -> 5
      [] OTHER                        -> 6

\* ---- error messages of the code and their class in the error taxonomy ----
ErrUnknownOptionType == "Unknown Option Type"
ErrStockPrice == "Stock price must be greater than zero."
ErrModelParent == "Model is not inherited off type FinEquityModel."
ErrTexp == "Time to expiry must be positive."
ErrVolatility == "Volatility should not be negative."
ErrUnknownModel == "Unknown Model Type"
ErrTypeError == "TypeError: 'int' object is not iterable"

ErrorClass(err) ==
    CASE err = ErrUnknownOptionType -> "InvalidArgument"
      [] err = ErrStockPrice        -> "InvalidInput"
      [] err = ErrTexp              -> "InvalidInput"
      [] err = ErrVolatility        -> "InvalidInput"
      [] err = ErrModelParent       -> "InvalidModel"
      [] err = ErrUnknownModel      -> "UnsupportedModel"
      [] err = None                 -> None
      [] OTHER                      -> "TypeError"


\* ---- FinEquityAmericanOption.__init__ -----------------------------------
\* faulty variant of KnownOptionType: the AMERICAN_PUT test is missing
KnownOptionTypeShort(optionType) ==
    ~(optionType # "EUROPEAN_CALL" /\ optionType # "EUROPEAN_PUT"
      /\ optionType # "AMERICAN_CALL")

KnownOptionType(optionType) ==
    ~(optionType # "EUROPEAN_CALL" /\ optionType # "EUROPEAN_PUT"
      /\ optionType # "AMERICAN_CALL" /\ optionType # "AMERICAN_PUT")

\* The outcome of the constructor: the error raised and no object (<<>>), or the
\* one object built (<<object>>).
NewOption(expiryDate, strikePrice, optionType, numOptions) ==
    IF ~KnownOptionType(optionType)
    THEN [err |-> ErrUnknownOptionType, obj |-> <<>>]
    ELSE [err |-> None,
          obj |-> <<[expiryDate |-> expiryDate, strikePrice |-> strikePrice,
                     optionType |-> optionType, numOptions |-> numOptions]>>]

\* ---- the lattice engine (models/FinModelCRRTree.crrTreeValAvg) ----------
RateDen == 4    \* one grid unit of rate is 1/RateDen per step in the stand-ins below

RECURSIVE Pow(_, _)
Pow(b, e) == IF e <= 0 THEN 1 ELSE b * Pow(b, e - 1)

IsCall(typeValue) == typeValue = 1 \/ typeValue = 3
IsAmerican(typeValue) == typeValue = 3 \/ typeValue = 4

\* step 1: N = stepsPerYear * T rounded to an integer >= 1
NumSteps(numStepsPerYear, texp) == Max(1, (numStepsPerYear * texp) \div YearTicks)

\* step 2: u = exp(sigma sqrt(dt)) > 1, d = 1/u; on the grid u = 1 + sigma
UpFactor(volatility) == 1 + volatility

\* step 4: the asset price at level i after j up moves, S u^j d^(i-j)
AssetPrice(s, u, i, j) ==
    IF 2 * j >= i THEN s * Pow(u, 2 * j - i) ELSE s \div Pow(u, i - 2 * j)

\* step 5: the exercise payoff
Payoff(typeValue, sT, K) ==
    IF IsCall(typeValue) THEN Max(sT - K, 0) ELSE Max(K - sT, 0)

\* step 3: p = (exp((r-q)dt) - d) / (u - d) as the fraction ProbNum / ProbDen,
\* with exp((r-q)dt) = (RateDen + r - q) / RateDen, clamped to [0, 1]
ProbDen(u) == RateDen * (u * u - 1)
ProbNum(r, q, u) == Max(0, Min(ProbDen(u), (RateDen + r - q) * u - RateDen))

\* step 6: continuation = exp(-r dt) (p Vup + (1-p) Vdown), exp(-r dt) = RateDen / (RateDen + r)
Continuation(r, q, u, vUp, vDown) ==
    (RateDen * (ProbNum(r, q, u) * vUp + (ProbDen(u) - ProbNum(r, q, u)) * vDown))
        \div ((RateDen + r) * ProbDen(u))

\* step 6: the node value; American styles compare with immediate exercise
NodeValue(typeValue, s, K, r, q, u, i, j, vUp, vDown) ==
    LET cont == Continuation(r, q, u, vUp, vDown)
    IN  IF IsAmerican(typeValue)
        THEN Max(cont, Payoff(typeValue, AssetPrice(s, u, i, j), K))
        ELSE cont

\* steps 6, 7: backward induction from the values of level i + 1 down to the root;
\* a level is the sequence of its node values, node j (j up moves) at index j + 1
RECURSIVE Induct(_, _, _, _, _, _, _, _)
Induct(typeValue, s, K, r, q, u, i, next) ==
    IF i < 0 THEN next[1]
    ELSE Induct(typeValue, s, K, r, q, u, i - 1,
                <<>> \o [k \in 1..(i + 1) |->
                    NodeValue(typeValue, s, K, r, q, u, i, k - 1, next[k + 1], next[k])])

\* crrTreeValAvg(s, r, q, volatility, numStepsPerYear, texp, optionType, K)['value']
crrTreeValAvg(s, r, q, volatility, numStepsPerYear, texp, typeValue, K) ==
    LET N == NumSteps(numStepsPerYear, texp)
        u == UpFactor(volatility)
    IN  Induct(typeValue, s, K, r, q, u, N - 1,
               <<>> \o [k \in 1..(N + 1) |->
                   Payoff(typeValue, AssetPrice(s, u, N, k - 1), K)])

\* ---- FinEquityAmericanOption.value --------------------------------------
\* Arguments.  valueDate is [type, v]: a FinDate (day number v) or a float (year
\* fraction v in ticks).  stockPrice is [kind, v]: a Python float, a Python int
\* (scalars, v the one-element sequence holding it) or an ndarray v.
\* discountCurve is [negLogDf]: -ln of the df it returns at the expiry date.
\* model is [parentType, type, volatility, numStepsPerYear].

\* texp = (self._expiryDate - valueDate) / gDaysInYear, or valueDate itself
Texp(self, valueDate) ==
    IF valueDate.type = "FinDate"
    THEN ((self.expiryDate - valueDate.v) * YearTicks) \div gDaysInYear
    ELSE valueDate.v

\* faulty variant of AnySpotNotPositive: < in place of <=, a zero spot passes
AnySpotNegative(stockPrice) ==
    \E i \in 1..Len(stockPrice.v) : stockPrice.v[i] < 0

\* np.any(stockPrice <= 0.0)
AnySpotNotPositive(stockPrice) ==
    \E i \in 1..Len(stockPrice.v) : stockPrice.v[i] <= 0

\* model._parentType != FinEquityModel
NotEquityModel(model) == model.parentType # "FinEquityModel"

\* faulty variant of TexpNegative: <= in place of <, expiry day itself is refused
TexpNotPositive(texp) == texp <= 0

\* np.any(texp < 0.0)
TexpNegative(texp) == texp < 0

\* np.maximum(texp, 1e-10)
FloorTexp(texp) == Max(texp, TexpFloor)

\* r = -np.log(df)/texp
Rate(discountCurve, texp) == discountCurve.negLogDf \div texp

\* faulty variant of IsBlackScholes: any model of the equity family is taken
IsEquityVariant(model) == model.parentType = "FinEquityModel"

\* type(model) == FinEquityModelBlackScholes
IsBlackScholes(model) == model.type = "FinEquityModelBlackScholes"

\* np.any(x): a bool, which compares as 0 or 1
NpAny(x) == IF x # 0 THEN 1 ELSE 0

\* np.any(volatility) < 0.0
VolatilityRejected(volatility) == NpAny(volatility) < 0

\* np.maximum(volatility, 1e-10)
FloorVolatility(volatility) == Max(volatility, VolFloor)

\* isinstance(S0, float)
IsFloat(S0) == S0.kind = "float"

\* what `for s in sArray` can iterate over: the list [S0], or S0 when it is an array
Iterable(S0) == IsFloat(S0) \/ S0.kind = "ndarray"

\* faulty variant of EngineArgs: the American and European style values are
\* exchanged on the way to the engine
EngineArgsStyleSwapped(self, s, r, q, volatility, numStepsPerYear, texp) ==
    [s |-> s, r |-> r, q |-> q, volatility |-> volatility,
     numStepsPerYear |-> numStepsPerYear, texp |-> texp,
     optionType |-> LET tv == OptionTypeValue(self.optionType)
                    IN  IF tv <= 2 THEN tv + 2 ELSE tv - 2,
     K |-> self.strikePrice]

\* the arguments of one crrTreeValAvg call
EngineArgs(self, s, r, q, volatility, numStepsPerYear, texp) ==
    [s |-> s, r |-> r, q |-> q, volatility |-> volatility,
     numStepsPerYear |-> numStepsPerYear, texp |-> texp,
     optionType |-> OptionTypeValue(self.optionType), K |-> self.strikePrice]

EngineValue(c) ==
    crrTreeValAvg(c.s, c.r, c.q, c.volatility, c.numStepsPerYear, c.texp,
                  c.optionType, c.K)

\* faulty variant of Collect: values.insert(0, v)
CollectFront(values, v) == <<v>> \o values

\* values.append(v)
Collect(values, v) == Append(values, v)

\* for s in sArray: v = crrTreeValAvg(...)['value']; values.append(v)
\* acc is [values, calls]: the list built so far and the engine calls made so far
RECURSIVE PriceLoop(_, _, _, _, _, _, _, _)
PriceLoop(self, sArray, r, q, volatility, numStepsPerYear, texp, acc) ==
    IF sArray = <<>> THEN acc
    ELSE LET call == EngineArgs(self, Head(sArray), r, q, volatility,
                                numStepsPerYear, texp)
         IN  PriceLoop(self, Tail(sArray), r, q, volatility, numStepsPerYear, texp,
                       [values |-> Collect(acc.values, EngineValue(call)),
                        calls |-> Append(acc.calls, call)])

\* faulty variant of Scale: - in place of *
ScaleMinus(values, numOptions) == [i \in 1..Len(values) |-> values[i] - numOptions]

\* values = values * self._numOptions
Scale(values, numOptions) == [i \in 1..Len(values) |-> values[i] * numOptions]

\* return values[0] if isinstance(S0, float) else values
Result(S0, values) ==
    IF IsFloat(S0) THEN [kind |-> "scalar", v |-> <<values[1]>>]
    ELSE [kind |-> "ndarray", v |-> values]

NoResult == [kind |-> "none", v |-> <<>>]

\* An exception leaves value(): no value is returned; calls are the engine calls
\* made before it was raised.
Raised(err, texp, calls) == [err |-> err, ret |-> NoResult, calls |-> calls, texp |-> texp]

\* the Black-Scholes branch of value()
ValueBlackScholes(self, S0, r, q, texp, model) ==
    IF VolatilityRejected(model.volatility) THEN Raised(ErrVolatility, texp, <<>>)
    ELSE IF ~Iterable(S0) THEN Raised(ErrTypeError, texp, <<>>)
    ELSE LET loop == PriceLoop(self, S0.v, r, q, FloorVolatility(model.volatility),
                               model.numStepsPerYear, texp,
                               [values |-> <<>>, calls |-> <<>>])
         IN  [err |-> None,
              ret |-> Result(S0, Scale(loop.values, self.numOptions)),
              calls |-> loop.calls,
              texp |-> texp]

\* faulty variant of value: the model's concrete type is tested after the pricing
\* loop has run on its fields
ValueDispatchLate(self, valueDate, stockPrice, discountCurve, dividendYield, model) ==
    LET texp0 == Texp(self, valueDate)
        texp == FloorTexp(texp0)
    IN  IF AnySpotNotPositive(stockPrice) THEN Raised(ErrStockPrice, texp0, <<>>)
        ELSE IF NotEquityModel(model) THEN Raised(ErrModelParent, texp0, <<>>)
        ELSE IF TexpNegative(texp0) THEN Raised(ErrTexp, texp0, <<>>)
        ELSE LET out == ValueBlackScholes(self, stockPrice, Rate(discountCurve, texp),
                                          dividendYield, texp, model)
             IN  IF IsBlackScholes(model) THEN out
                 ELSE Raised(ErrUnknownModel, texp, out.calls)

\* value(self, valueDate, stockPrice, discountCurve, dividendYield, model): its
\* outcome [err, ret, calls, texp], texp being the time to expiry it worked with
value(self, valueDate, stockPrice, discountCurve, dividendYield, model) ==
    LET texp0 == Texp(self, valueDate)
        texp == FloorTexp(texp0)
    IN  IF AnySpotNotPositive(stockPrice) THEN Raised(ErrStockPrice, texp0, <<>>)
        ELSE IF NotEquityModel(model) THEN Raised(ErrModelParent, texp0, <<>>)
        ELSE IF TexpNegative(texp0) THEN Raised(ErrTexp, texp0, <<>>)
        ELSE IF IsBlackScholes(model)
             THEN ValueBlackScholes(self, stockPrice, Rate(discountCurve, texp),
                                    dividendYield, texp, model)
             ELSE Raised(ErrUnknownModel, texp, <<>>)

\* ---- the inputs a caller draws from ---------------------------------------
RECURSIVE SeqsUpTo(_, _)
SeqsUpTo(S, n) ==
    IF n = 0 THEN {<<>>}
    ELSE LET shorter == SeqsUpTo(S, n - 1)
         IN  shorter \cup {Append(q, x) : q \in {p \in shorter : Len(p) = n - 1}, x \in S}

ExpiryDates == {MaxT}
StrikeVals == {-1, 2}
QtyVals == {-1, 2}
SpotVals == {0, 1, 3}
NegLogDfVals == {0, 2}
DivVals == {0, 1}
VolVals == {-1, 0, 2}
TexpVals == (-1)..MaxT

ValueDates ==
    [type : {"FinDate"}, v : {MaxT - t : t \in TexpVals}]
        \cup [type : {"float"}, v : TexpVals]
StockPrices ==
    [kind : {"float", "int"}, v : {<<s>> : s \in SpotVals}]
        \cup [kind : {"ndarray"}, v : SeqsUpTo(SpotVals, MaxLen)]
DiscountCurves == [negLogDf : NegLogDfVals]
StepsVals == {gDaysInYear * k : k \in 1..MaxStepsPerDay}
Models ==
    [parentType : {"FinEquityModel", "FinFXModel"},
     type : {"FinEquityModelBlackScholes"},
     volatility : VolVals, numStepsPerYear : StepsVals]
        \cup [parentType : {"FinEquityModel", "FinFXModel"},
              type : {"FinEquityModelHeston"},
              volatility : {0}, numStepsPerYear : {gDaysInYear}]
Args ==
    [valueDate : ValueDates, stockPrice : StockPrices,
     discountCurve : DiscountCurves, dividendYield : DivVals, model : Models]

\* ---- the state machine ----------------------------------------------------
\* ctor:     the last constructor call, [args, given, err]; given tells whether
\*           numOptions was passed.  <<>> before the first call.
\* contract: the contract built, <<object>>, or <<>> while none exists.
\* call:     the last value() call on the contract, <<[args, out]>>, or <<>>
\*           once the caller has taken its outcome.
VARIABLES ctor, contract, call

vars == <<ctor, contract, call>>

Init ==
    /\ ctor = <<>>
    /\ contract = <<>>
    /\ call = <<>>

\* c = FinEquityAmericanOption(expiryDate, strikePrice, optionType[, numOptions])
Construct ==
    /\ contract = <<>>
    /\ \E expiryDate \in ExpiryDates, strikePrice \in StrikeVals,
          optionType \in FinOptionTypes, given \in BOOLEAN :
         \E numOptions \in (IF given THEN QtyVals ELSE {DefaultNumOptions}) :
            LET new == NewOption(expiryDate, strikePrice, optionType, numOptions)
            IN  /\ ctor' = <<[args |-> [expiryDate |-> expiryDate,
                                        strikePrice |-> strikePrice,
                                        optionType |-> optionType,
                                        numOptions |-> numOptions],
                              given |-> given, err |-> new.err]>>
                /\ contract' = new.obj
    /\ UNCHANGED call

\* c.value(valueDate, stockPrice, discountCurve, dividendYield, model)
Value ==
    /\ contract # <<>>
    /\ call = <<>>
    /\ \E a \in Args :
         call' = <<[args |-> a,
                    out |-> value(contract[1], a.valueDate, a.stockPrice,
                                  a.discountCurve, a.dividendYield, a.model)]>>
    /\ UNCHANGED <<ctor, contract>>

\* the caller takes the outcome; the contract is ready for the next valuation
Return ==
    /\ call # <<>>
    /\ call' = <<>>
    /\ UNCHANGED <<ctor, contract>>

Next == Construct \/ Value \/ Return

Spec == Init /\ [][Next]_vars


\* ---- vocabulary of the properties ------------------------------------------
\* The conditions below are stated on the arguments themselves, not through the
\* tests of value().
HasCall == call # <<>>
Self == contract[1]
In == call[1].args
Out == call[1].out

\* the time to expiry the caller asked for, in ticks
AskedTexp ==
    IF In.valueDate.type = "FinDate" THEN Self.expiryDate - In.valueDate.v
    ELSE In.valueDate.v

SpotsPositive == \A i \in 1..Len(In.stockPrice.v) : In.stockPrice.v[i] > 0
ScalarSpot == In.stockPrice.kind \in {"float", "int"}
EquityFamily == In.model.parentType = "FinEquityModel"
BlackScholes == In.model.type = "FinEquityModelBlackScholes"
ValidInputs ==
    /\ SpotsPositive
    /\ AskedTexp >= 0
    /\ EquityFamily /\ BlackScholes
    /\ In.model.volatility >= 0
Priced == Out.calls # <<>>
NothingReturned == Out.ret.kind = "none" /\ Out.ret.v = <<>>
FlooredTexp == IF AskedTexp > TexpFloor THEN AskedTexp ELSE TexpFloor
FlooredVol == IF In.model.volatility > VolFloor THEN In.model.volatility ELSE VolFloor

\* value() of contract c on the arguments of the last call, the spot replaced by sp
ValueWith(c, sp) ==
    value(c, In.valueDate, sp, In.discountCurve, In.dividendYield, In.model)


\* ---- C1 ---------------------------------------------------------------------
\* C1: a value() call with a Black-Scholes model of negative volatility fails,
\* returns no value and never reaches the lattice engine; when nothing else is
\* wrong with the call the failure is the InvalidInput error of the volatility.
C1_NegativeVolatilityRejected ==
    (HasCall /\ BlackScholes /\ In.model.volatility < 0) =>
        /\ Out.err # None
        /\ NothingReturned
        /\ ~Priced
        /\ (SpotsPositive /\ AskedTexp >= 0 /\ EquityFamily) =>
               (Out.err = ErrVolatility /\ ErrorClass(Out.err) = "InvalidInput")

\* ---- C3 ---------------------------------------------------------------------
\* C3: with valid inputs, a scalar spot (float or int) makes value() return a
\* scalar, and a spot vector of length n makes it return a vector of length n;
\* no valid spot makes it fail.
C3_ReturnShape ==
    (HasCall /\ ValidInputs) =>
        /\ Out.err = None
        /\ ScalarSpot => (Out.ret.kind = "scalar" /\ Len(Out.ret.v) = 1)
        /\ ~ScalarSpot =>
               (Out.ret.kind = "ndarray" /\ Len(Out.ret.v) = Len(In.stockPrice.v))

\* ---- C6 ---------------------------------------------------------------------
\* C6: value() fails with the spot's InvalidInput error exactly when the scalar
\* spot, or some element of the spot vector at any position, is <= 0.
C6_SpotRejection ==
    HasCall =>
        /\ (Out.err = ErrStockPrice) <=> ~SpotsPositive
        /\ ~SpotsPositive =>
               (ErrorClass(Out.err) = "InvalidInput" /\ NothingReturned /\ ~Priced)

\* C6's case: a vector whose first element is valid and whose last is not
C6_Witness ==
    /\ HasCall
    /\ In.stockPrice.kind = "ndarray" /\ Len(In.stockPrice.v) = 2
    /\ In.stockPrice.v[1] > 0 /\ In.stockPrice.v[2] = 0
    /\ Out.err = ErrStockPrice

\* ---- C8 ---------------------------------------------------------------------
\* C8: the constructor fails, with InvalidArgument, exactly when the style is none
\* of the four vanilla styles; then no contract exists; otherwise the contract
\* holds the expiry, strike, style and quantity given (1 when the quantity is
\* omitted), whatever the sign of the strike and of the quantity.
C8_ConstructionValidation ==
    ctor # <<>> =>
        LET k == ctor[1]
            four == {"EUROPEAN_CALL", "EUROPEAN_PUT", "AMERICAN_CALL", "AMERICAN_PUT"}
        IN  /\ (k.err # None) <=> (k.args.optionType \notin four)
            /\ k.err # None =>
                   (ErrorClass(k.err) = "InvalidArgument" /\ contract = <<>>)
            /\ k.err = None =>
                   /\ Len(contract) = 1
                   /\ Self.expiryDate = k.args.expiryDate
                   /\ Self.strikePrice = k.args.strikePrice
                   /\ Self.optionType = k.args.optionType
                   /\ Self.numOptions = (IF k.given THEN k.args.numOptions ELSE 1)

\* C8's case: a contract built with a negative strike and the quantity omitted
C8_Witness ==
    /\ ctor # <<>> /\ ctor[1].err = None /\ ~ctor[1].given
    /\ contract # <<>> /\ Self.strikePrice < 0 /\ Self.numOptions = 1


\* ---- C2 ---------------------------------------------------------------------
\* C2 as claimed: with valid inputs every value returned is >= 0, whatever the
\* quantity of the contract.
C2_NonNegativeAnyQuantity ==
    (HasCall /\ ValidInputs) =>
        \A i \in 1..Len(Out.ret.v) : Out.ret.v[i] >= 0

\* C2 amended: with valid inputs and a quantity >= 0, every value returned is >= 0
\* (any style, any strike).
C2_NonNegative ==
    (HasCall /\ ValidInputs /\ Self.numOptions >= 0) =>
        \A i \in 1..Len(Out.ret.v) : Out.ret.v[i] >= 0

\* C2's case: a contract of quantity 2 that prices a vector of two valid spots to
\* a zero and a positive value
C2_Witness ==
    /\ HasCall /\ ValidInputs /\ Self.numOptions = 2
    /\ Out.err = None /\ Len(Out.ret.v) = 2
    /\ Out.ret.v[1] = 0 /\ Out.ret.v[2] > 0

\* ---- C4 ---------------------------------------------------------------------
\* C4: for a spot vector that value() prices, the engine is called once per
\* element, in the order of the vector, each call with that element as its spot
\* and the same other arguments; and element i of the result is what value()
\* returns for element i alone, given as a scalar.
C4_VectorScalarEquivalence ==
    (HasCall /\ In.stockPrice.kind = "ndarray" /\ Out.err = None) =>
        LET n == Len(In.stockPrice.v)
        IN  /\ Len(Out.calls) = n
            /\ Len(Out.ret.v) = n
            /\ \A i \in 1..n :
                 LET alone == ValueWith(Self, [kind |-> "float",
                                               v |-> <<In.stockPrice.v[i]>>])
                 IN  /\ Out.calls[i].s = In.stockPrice.v[i]
                     /\ [Out.calls[i] EXCEPT !.s = 0] = [Out.calls[1] EXCEPT !.s = 0]
                     /\ alone.err = None
                     /\ alone.ret.kind = "scalar"
                     /\ Out.ret.v[i] = alone.ret.v[1]
                     /\ alone.calls = <<Out.calls[i]>>

\* C4's case: a vector of two spots priced to two different values
C4_Witness ==
    /\ HasCall /\ In.stockPrice.kind = "ndarray" /\ Out.err = None
    /\ Len(Out.ret.v) = 2 /\ Out.ret.v[1] # Out.ret.v[2]
    /\ Self.numOptions # 1

\* ---- C5 ---------------------------------------------------------------------
\* C5: a value() call that fails has not called the lattice engine and returns
\* nothing; a model outside the equity family is refused with no engine call.
C5_NoPartialComputation ==
    HasCall =>
        /\ Out.err # None => (~Priced /\ NothingReturned)
        /\ (SpotsPositive /\ ~EquityFamily) => (Out.err = ErrModelParent /\ ~Priced)

\* C5's case: a call on a vector of two valid spots, refused for its negative
\* time to expiry with no engine call made
C5_Witness ==
    /\ HasCall /\ SpotsPositive /\ Len(In.stockPrice.v) = 2
    /\ EquityFamily /\ BlackScholes /\ AskedTexp < 0
    /\ Out.err = ErrTexp /\ Out.calls = <<>>

\* ---- C7 ---------------------------------------------------------------------
\* C7: with otherwise valid inputs value() fails with InvalidModel exactly when
\* the model is outside the equity family, and with UnsupportedModel exactly when
\* it is in the family and not Black-Scholes; every engine call comes from a
\* Black-Scholes model of the equity family and carries its (floored) volatility
\* and its steps per year.
C7_ModelDispatch ==
    HasCall =>
        /\ (SpotsPositive /\ AskedTexp >= 0 /\ (BlackScholes => In.model.volatility >= 0)) =>
              /\ (ErrorClass(Out.err) = "InvalidModel") <=> ~EquityFamily
              /\ (ErrorClass(Out.err) = "UnsupportedModel") <=>
                     (EquityFamily /\ ~BlackScholes)
        /\ Priced =>
              /\ EquityFamily /\ BlackScholes
              /\ \A i \in 1..Len(Out.calls) :
                    /\ Out.calls[i].volatility = FlooredVol
                    /\ Out.calls[i].numStepsPerYear = In.model.numStepsPerYear

\* C7's case: an equity-family model that is not Black-Scholes, refused
C7_Witness ==
    /\ HasCall /\ SpotsPositive /\ AskedTexp >= 0
    /\ EquityFamily /\ ~BlackScholes
    /\ ErrorClass(Out.err) = "UnsupportedModel" /\ ~Priced

\* ---- C9 ---------------------------------------------------------------------
\* the European contract with the strike, expiry, quantity and side of c
EuropeanTwin(c) ==
    [c EXCEPT !.optionType =
        IF c.optionType = "AMERICAN_CALL" THEN "EUROPEAN_CALL" ELSE "EUROPEAN_PUT"]

AmericanStyle == Self.optionType \in {"AMERICAN_CALL", "AMERICAN_PUT"}

\* C9 as claimed: on the same valid inputs an American contract is worth at least
\* its European twin, whatever the quantity.
C9_AmericanGeEuropeanAnyQuantity ==
    (HasCall /\ ValidInputs /\ AmericanStyle /\ Out.err = None) =>
        LET eu == ValueWith(EuropeanTwin(Self), In.stockPrice)
        IN  /\ eu.err = None
            /\ \A i \in 1..Len(Out.ret.v) : Out.ret.v[i] >= eu.ret.v[i]

\* C9 amended: on the same valid inputs an American contract of quantity >= 0 is
\* worth at least its European twin.
C9_AmericanGeEuropean ==
    (HasCall /\ ValidInputs /\ AmericanStyle /\ Out.err = None
        /\ Self.numOptions >= 0) =>
        LET eu == ValueWith(EuropeanTwin(Self), In.stockPrice)
        IN  /\ eu.err = None
            /\ Len(eu.ret.v) = Len(Out.ret.v)
            /\ \A i \in 1..Len(Out.ret.v) : Out.ret.v[i] >= eu.ret.v[i]

\* C9's case: an American put of positive quantity worth strictly more than its
\* European twin
C9_Witness ==
    /\ HasCall /\ ValidInputs /\ Out.err = None
    /\ Self.optionType = "AMERICAN_PUT" /\ Self.numOptions > 0
    /\ Len(Out.ret.v) >= 1
    /\ Out.ret.v[1] > ValueWith(EuropeanTwin(Self), In.stockPrice).ret.v[1]

\* ---- C10 --------------------------------------------------------------------
\* what C10 says of a time to expiry T >= 0, in both input modes: the call does
\* not fail on T, works with max(T, epsilon), derives r from it and hands it to
\* the engine
C10_NonNegativeTexp ==
    (HasCall /\ AskedTexp >= 0) =>
        /\ Out.err # ErrTexp
        /\ (SpotsPositive /\ EquityFamily) => Out.texp = FlooredTexp
        /\ \A i \in 1..Len(Out.calls) :
              /\ Out.calls[i].texp = FlooredTexp
              /\ Out.calls[i].texp > 0
              /\ Out.calls[i].r = In.discountCurve.negLogDf \div FlooredTexp

\* C10 as claimed: a call with T < 0 fails with InvalidInput and is never priced;
\* a call with T >= 0 is as above.
C10_TexpHandlingAsClaimed ==
    /\ (HasCall /\ AskedTexp < 0) =>
          (ErrorClass(Out.err) = "InvalidInput" /\ ~Priced /\ NothingReturned)
    /\ C10_NonNegativeTexp

\* C10 amended: a call with T < 0 fails and is never priced; the failure is
\* InvalidInput unless the model is outside the equity family (and the spots are
\* all positive), in which case it is InvalidModel, the family being tested
\* before T; a call with T >= 0 is as above.
C10_TexpHandling ==
    /\ (HasCall /\ AskedTexp < 0) =>
          /\ Out.err # None /\ ~Priced /\ NothingReturned
          /\ ErrorClass(Out.err) =
                (IF SpotsPositive /\ ~EquityFamily THEN "InvalidModel"
                 ELSE "InvalidInput")
          /\ (SpotsPositive /\ EquityFamily) => Out.err = ErrTexp
    /\ C10_NonNegativeTexp

\* C10's case: a valuation on the expiry date itself, priced with T = epsilon
C10_Witness ==
    /\ HasCall /\ In.valueDate.type = "FinDate" /\ AskedTexp = 0
    /\ Out.err = None /\ Priced /\ Out.calls[1].texp = TexpFloor
    /\ In.discountCurve.negLogDf > 0

====
